---- MODULE Spec2Model ----
(***************************************************************************)
(* Model of the rule-based router of bestRoute:                            *)
(*   src/src/utils/rule_based_router.py   RuleBasedRouter                  *)
(*   src/src/api/openrouter_client_enhanced.py  send_prompt_to_openrouter  *)
(*   src/src/utils/cost_tracker.py        CostTracker.log_api_call         *)
(*   src/src/utils/model_call_logger.py   ModelCallLogger.log_model_call   *)
(*                                                                         *)
(* send_prompt blocks on the upstream completion call.  The model has one  *)
(* action for the code that runs up to the first upstream call, and one    *)
(* action for the code that runs from each upstream reply to the next      *)
(* upstream call, the return or the raise.                                 *)
(*                                                                         *)
(* Money is held in thousandths of the catalog's price unit, so that       *)
(* (tokens * cost_per_1k) / 1000 is the integer tokens * cost_per_1k.      *)
(***************************************************************************)
EXTENDS Integers, Sequences, FiniteSets, TLC

VARIABLES
    routing_strategy,             \* self.routing_strategy
    session_id,                   \* self.session_id (NoSession until the first send_prompt)
    matched_patterns,             \* self.matched_patterns
    prompt_detection_reason,      \* self.prompt_detection_reason
    model_selection_explanation,  \* self.model_selection_explanation
    next_uuid,                    \* the uuid4 values handed out so far
    pc,                           \* "idle", "call" (first upstream call pending), "retry"
    frame,                        \* locals of the running send_prompt frame
    upstream,                     \* invocations of send_prompt_to_openrouter, in order
    model_calls,                  \* entries built by log_model_call, in order
    api_costs,                    \* rows appended to logs/api_costs.csv by CostTracker
    invocation,                   \* number of top-level send_prompt invocations so far
    mark,                         \* the invocation's model_id argument and the lengths
                                  \* of the three logs when it started
    result,                       \* how the last top-level invocation ended
    log_file,                     \* lines of logs/model_calls.jsonl
    csv_file,                     \* rows of logs/model_calls.csv
    other,                        \* pc and frame of the thread that is not running
    ret                           \* the last direct call of a method and what it gave

vars == <<routing_strategy, session_id, matched_patterns, prompt_detection_reason,
          model_selection_explanation, next_uuid, pc, frame, upstream, model_calls,
          api_costs, invocation, mark, result, log_file, csv_file, other, ret>>

----------------------------------------------------------------------------
(* Bounds *)

\* top-level invocations of send_prompt explored one after the other by SeqSpec
MaxInvocations == 2

\* direct calls of log_model_call explored by LogSpec
MaxRecords == 2

\* the largest number of patterns of one list that a prompt matches, and
\* the largest token count, in the direct calls of single methods
MaxMatches == 2

MaxTokenCount == 2100

\* the largest number of models in config["models"] when routers are
\* constructed from configurations
MaxCatalog == 3

----------------------------------------------------------------------------
(* dict.get(key, default) *)
Get(d, key, default) == IF key \in DOMAIN d THEN d[key] ELSE default

Max2(a, b) == IF a >= b THEN a ELSE b

Max3(a, b, c) == Max2(a, Max2(b, c))

----------------------------------------------------------------------------
(* Configuration handed to RuleBasedRouter.__init__ *)

Haiku == "anthropic/claude-3-haiku"
Sonnet == "anthropic/claude-3-sonnet"
Gpt4o == "openai/gpt-4o"
Opus == "anthropic/claude-3-opus"
InvalidModel == "invalid/model-name"

\* insertion order of config["models"]
model_order == <<Haiku, Sonnet, Gpt4o>>

\* config["models"]: Sonnet declares no max_tokens, Opus is not configured
models ==
    (Haiku :> [cost_per_1k_tokens |-> 25, max_tokens |-> 400]) @@
    (Sonnet :> [cost_per_1k_tokens |-> 300]) @@
    (Gpt4o :> [cost_per_1k_tokens |-> 500, max_tokens |-> 8000])

\* config["default_model"]
default_model == Haiku

\* CostTracker.current_session_id: the digits of the time of construction,
\* a value no uuid4 of the router equals
current_session_id == 20240101

NoSession == 0

Unbound == "unbound"

None == "None"

----------------------------------------------------------------------------
(* Prompts: a prompt is held by what the classifier and the token          *)
(* estimator read from it.                                                 *)
(*   code, summary, question: patterns of each list that match             *)
(*   brackets: re.search('[{};()]') finds one; lines: len(split('\n'))      *)
(*   chars: len(prompt); tiktoken: len(encoding.encode(prompt)), -1 when   *)
(*   tiktoken raises                                                       *)

Prompts == {
    [name |-> "fib", code |-> 1, summary |-> 0, question |-> 0,
     brackets |-> FALSE, lines |-> 1, chars |-> 62, tiktoken |-> 12],
    [name |-> "essay", code |-> 0, summary |-> 0, question |-> 0,
     brackets |-> FALSE, lines |-> 1, chars |-> 9000, tiktoken |-> -1],
    [name |-> "howdef", code |-> 1, summary |-> 0, question |-> 1,
     brackets |-> TRUE, lines |-> 5, chars |-> 2400, tiktoken |-> 600] }

\* the content of a system message, which the router never classifies
SystemText == [name |-> "system-text"]

\* stands for a key the dict does not have
Absent == [name |-> "absent"]

Msg(role, content) == [role |-> role, content |-> content]

Fib == CHOOSE p \in Prompts : p.name = "fib"

\* None as a role stands for a message without the key "role"
MessageLists ==
    { <<Msg("user", p)>> : p \in Prompts } \cup
    { <<>>,
      <<Msg("system", SystemText)>>,
      <<Msg(None, Fib)>>,
      <<Msg("system", Absent), Msg("user", Fib)>> }

----------------------------------------------------------------------------
(* RuleBasedRouter.classify_prompt: the value returned and the two         *)
(* instance attributes it assigns                                          *)

\* classify_prompt with "if code_matches > 0" in place of line 253
classify_prompt_any_code(p) ==
    LET matched == [code |-> p.code, summary |-> p.summary, question |-> p.question]
    IN  IF p.code > 0
        THEN [type |-> "code", matched |-> matched, reason |-> <<"code patterns", p.code>>]
        ELSE IF p.summary >= p.question /\ p.summary > 0
             THEN [type |-> "summary", matched |-> matched,
                   reason |-> <<"summary patterns", p.summary>>]
             ELSE IF p.question > 0
                  THEN [type |-> "question", matched |-> matched,
                        reason |-> <<"question patterns", p.question>>]
                  ELSE [type |-> "question", matched |-> matched,
                        reason |-> <<"short text", 0>>]

\* classify_prompt with a tie between code and summary going to summary
\* when the classification before it found summary patterns
classify_prompt_by_last(p) ==
    LET matched == [code |-> p.code, summary |-> p.summary, question |-> p.question]
        max_matches == Max3(p.code, p.summary, p.question)
    IN  IF max_matches = 0
        THEN IF p.brackets /\ p.lines > 3
             THEN [type |-> "code", matched |-> matched, reason |-> <<"code-like syntax", 0>>]
             ELSE IF p.chars > 1000
                  THEN [type |-> "summary", matched |-> matched, reason |-> <<"long text", 0>>]
                  ELSE [type |-> "question", matched |-> matched, reason |-> <<"short text", 0>>]
        ELSE IF /\ p.code = max_matches
                /\ ~(p.summary = max_matches /\
                     prompt_detection_reason[1] = "summary patterns")
             THEN [type |-> "code", matched |-> matched,
                   reason |-> <<"code patterns", p.code>>]
             ELSE IF p.summary = max_matches
                  THEN [type |-> "summary", matched |-> matched,
                        reason |-> <<"summary patterns", p.summary>>]
                  ELSE [type |-> "question", matched |-> matched,
                        reason |-> <<"question patterns", p.question>>]

\* classify_prompt with "> 2" in place of "> 3" at line 245
classify_prompt_three_lines(p) ==
    LET matched == [code |-> p.code, summary |-> p.summary, question |-> p.question]
        max_matches == Max3(p.code, p.summary, p.question)
    IN  IF max_matches = 0
        THEN IF p.brackets /\ p.lines > 2
             THEN [type |-> "code", matched |-> matched, reason |-> <<"code-like syntax", 0>>]
             ELSE IF p.chars > 1000
                  THEN [type |-> "summary", matched |-> matched, reason |-> <<"long text", 0>>]
                  ELSE [type |-> "question", matched |-> matched, reason |-> <<"short text", 0>>]
        ELSE IF p.code = max_matches
             THEN [type |-> "code", matched |-> matched,
                   reason |-> <<"code patterns", p.code>>]
             ELSE IF p.summary = max_matches
                  THEN [type |-> "summary", matched |-> matched,
                        reason |-> <<"summary patterns", p.summary>>]
                  ELSE [type |-> "question", matched |-> matched,
                        reason |-> <<"question patterns", p.question>>]

classify_prompt(p) ==
    LET code_matches == p.code
        summary_matches == p.summary
        question_matches == p.question
        max_matches == Max3(code_matches, summary_matches, question_matches)
        matched == [code |-> code_matches, summary |-> summary_matches,
                    question |-> question_matches]
    IN  IF max_matches = 0
        THEN IF p.brackets /\ p.lines > 3
             THEN [type |-> "code", matched |-> matched, reason |-> <<"code-like syntax", 0>>]
             ELSE IF p.chars > 1000
                  THEN [type |-> "summary", matched |-> matched, reason |-> <<"long text", 0>>]
                  ELSE [type |-> "question", matched |-> matched, reason |-> <<"short text", 0>>]
        ELSE IF code_matches = max_matches
             THEN [type |-> "code", matched |-> matched,
                   reason |-> <<"code patterns", code_matches>>]
             ELSE IF summary_matches = max_matches
                  THEN [type |-> "summary", matched |-> matched,
                        reason |-> <<"summary patterns", summary_matches>>]
                  ELSE [type |-> "question", matched |-> matched,
                        reason |-> <<"question patterns", question_matches>>]

estimate_token_count(p) ==
    IF p.tiktoken >= 0 THEN p.tiktoken ELSE p.chars \div 4

length_categories == [short |-> 500, medium |-> 2000, long |-> 8000]

\* determine_length_category with "<" in place of "<=" at lines 296, 298
determine_length_category_exclusive(token_count) ==
    IF token_count < length_categories["short"]
    THEN "short"
    ELSE IF token_count < length_categories["medium"]
         THEN "medium"
         ELSE "long"

determine_length_category(token_count) ==
    IF token_count <= length_categories["short"]
    THEN "short"
    ELSE IF token_count <= length_categories["medium"]
         THEN "medium"
         ELSE "long"

----------------------------------------------------------------------------
(* RuleBasedRouter.__init__ and _initialize_strategy_preferences           *)

\* sorted(self.models.keys(), key=key, reverse=reverse): Python's sort is
\* stable, also under reverse=True
\* the keys in the order that leaves them unsorted
UnsortedKeys(order, key, reverse) == order

\* sorted(order, key=..., reverse=...): a stable sort, keys that compare
\* equal stay in the order of `order`
SortedKeys(order, key, reverse) ==
    LET n == Len(order)
        Before(i, j) ==
            IF key[order[i]] = key[order[j]]
            THEN i < j
            ELSE IF reverse
                 THEN key[order[i]] > key[order[j]]
                 ELSE key[order[i]] < key[order[j]]
        Rank(i) == 1 + Cardinality({ j \in 1..n : Before(j, i) })
    IN  [ r \in 1..n |-> order[CHOOSE i \in 1..n : Rank(i) = r] ]

Sorted(key, reverse) == SortedKeys(model_order, key, reverse)

CostOr999 == [m \in DOMAIN models |-> Get(models[m], "cost_per_1k_tokens", 999)]

CostOr0 == [m \in DOMAIN models |-> Get(models[m], "cost_per_1k_tokens", 0)]

models_by_cost == Sorted(CostOr999, FALSE)

models_by_speed == Sorted(CostOr999, FALSE)

models_by_quality == Sorted(CostOr0, TRUE)

PromptTypes == {"code", "summary", "question"}

LengthCategories == {"short", "medium", "long"}

Strategies == {"balanced", "cost", "speed", "quality"}

\* none of code_models, summary_models, question_models is configured
model_preferences ==
    [code |-> [short |-> Gpt4o, medium |-> Gpt4o, long |-> Opus],
     summary |-> [short |-> Haiku, medium |-> Sonnet, long |-> Sonnet],
     question |-> [short |-> Haiku, medium |-> Haiku, long |-> Sonnet]]

\* lines 112-131 with models_by_quality[0] for every length
PreferencesWithoutLongRule(by_cost, by_speed, by_quality) ==
    [cost |->
        [t \in PromptTypes |-> [l \in LengthCategories |->
            IF Len(by_cost) > 0 THEN by_cost[1] ELSE default_model]],
     speed |->
        [t \in PromptTypes |-> [l \in LengthCategories |->
            IF Len(by_speed) > 0 THEN by_speed[1] ELSE default_model]],
     quality |->
        [t \in PromptTypes |-> [l \in LengthCategories |->
            IF Len(by_quality) > 0 THEN by_quality[1] ELSE default_model]],
     balanced |-> [t \in PromptTypes |-> model_preferences[t]]]

\* lines 112-131: the table built from the three rankings
Preferences(by_cost, by_speed, by_quality) ==
    [cost |->
        [t \in PromptTypes |-> [l \in LengthCategories |->
            IF Len(by_cost) > 0 THEN by_cost[1] ELSE default_model]],
     speed |->
        [t \in PromptTypes |-> [l \in LengthCategories |->
            IF Len(by_speed) > 0 THEN by_speed[1] ELSE default_model]],
     quality |->
        [t \in PromptTypes |-> [l \in LengthCategories |->
            IF l = "long"
            THEN IF Len(by_quality) > 1
                 THEN by_quality[2]
                 ELSE IF Len(by_quality) > 0
                      THEN by_quality[1]
                      ELSE default_model
            ELSE IF Len(by_quality) > 0
                 THEN by_quality[1]
                 ELSE default_model]],
     balanced |-> [t \in PromptTypes |-> model_preferences[t]]]

\* _initialize_strategy_preferences of a router whose config["models"] holds
\* the keys `order`, in this order, with the values of `catalog`
initialize_strategy_preferences(order, catalog) ==
    \* the rankings of lines 100-110
    Preferences(
        SortedKeys(order, [m \in DOMAIN catalog |->
                            Get(catalog[m], "cost_per_1k_tokens", 999)], FALSE),
        SortedKeys(order, [m \in DOMAIN catalog |->
                            Get(catalog[m], "cost_per_1k_tokens", 999)], FALSE),
        SortedKeys(order, [m \in DOMAIN catalog |->
                            Get(catalog[m], "cost_per_1k_tokens", 0)], TRUE))

strategy_preferences == Preferences(models_by_cost, models_by_speed, models_by_quality)

\* select_model without the check of lines 345-348
select_model_unchecked(p, strategy) ==
    LET c == classify_prompt(p)
        length_category == determine_length_category(estimate_token_count(p))
        candidate == Get(strategy_preferences, strategy,
                         [t \in PromptTypes |-> [l \in LengthCategories |->
                            default_model]])[c.type][length_category]
    IN  [model_id |-> candidate, matched |-> c.matched, reason |-> c.reason,
         explanation |-> [kind |-> "selected", model |-> candidate,
                          prompt_type |-> c.type, strategy |-> strategy]]

\* RuleBasedRouter.select_model under the routing strategy `strategy`: the
\* model returned and the attributes assigned on the way
select_model(p, strategy) ==
    LET c == classify_prompt(p)
        token_count == estimate_token_count(p)
        length_category == determine_length_category(token_count)
        model_candidates ==
            [s \in Strategies |-> strategy_preferences[s][c.type][length_category]]
        candidate == Get(model_candidates, strategy, default_model)
    IN  IF candidate \notin DOMAIN models
        THEN [model_id |-> default_model, matched |-> c.matched, reason |-> c.reason,
              explanation |-> [kind |-> "default", model |-> default_model,
                               prompt_type |-> None, strategy |-> None]]
        ELSE [model_id |-> candidate, matched |-> c.matched, reason |-> c.reason,
              explanation |-> [kind |-> "selected", model |-> candidate,
                               prompt_type |-> c.type, strategy |-> strategy]]

\* RuleBasedRouter.get_routing_explanation: classify_prompt has no default
\* arguments, so "prompt_type" is always "unknown"
get_routing_explanation(explanation, strategy, matched) ==
    [explanation |-> explanation, prompt_type |-> "unknown",
     strategy |-> strategy, matched_patterns |-> matched]

----------------------------------------------------------------------------
(* Exceptions.  An exception is held by the phrases its str() contains,    *)
(* which is all send_prompt reads from it, and by the failure it stands    *)
(* for.                                                                    *)

Err(kind, text) == [kind |-> kind, text |-> text]

NoError == Err("none", {})

\* send_prompt line 390: m["role"] on a message without the key
KeyErrorRole == Err("key_error", {"role"})

\* send_prompt line 392
NoUserMessage == Err("no_user_message", {"No user message found"})

\* send_prompt line 394: ["content"] on a message without the key
KeyErrorContent == Err("key_error", {"content"})

\* send_prompt_to_openrouter lines 101-109
EmptyMessages == Err("validation", {"Messages list cannot be empty"})

MissingRole == Err("validation", {"is missing the 'role' field"})

MissingContent == Err("validation", {"is missing the 'content' field"})

\* check_api_key line 69, raised again at line 120
MissingApiKey == Err("auth", {"OpenRouter API key is required"})

\* open() of logs/api_costs.csv failing in CostTracker.log_api_call
CostLogError == Err("cost_log", {"Permission denied"})

\* RuntimeError of lines 164, 172 and 213: the text is the upstream's
UpstreamErrors == {
    Err("auth", {"Status 401", "No auth credentials found"}),
    Err("rate_limit", {"Status 429", "Rate limit exceeded"}),
    Err("rate_limit", {"Status 429", "Rate limit reached", "token"}),
    Err("timeout", {"Read timed out"}),
    Err("upstream", {"Status 500"}),
    Err("context_length", {"Status 400", "maximum context length", "token"}) }

\* the "usage" object of a 200 response; a key may be missing
Usages == { [prompt_tokens |-> 800, completion_tokens |-> 400, total_tokens |-> 1200],
            [prompt_tokens |-> 800, completion_tokens |-> 400] }

NoUsage == [none |-> TRUE]

Reply(status, error, usage) == [status |-> status, error |-> error, usage |-> usage]

Pending == Reply("pending", NoError, NoUsage)

\* the validation without the check of lines 108-109
ValidateRoleOnly(messages) ==
    IF Len(messages) = 0
    THEN EmptyMessages
    ELSE IF \E i \in 1..Len(messages) : messages[i].role = None
         THEN MissingRole
         ELSE NoError

\* send_prompt_to_openrouter lines 100-109
ValidateMessages(messages) ==
    IF Len(messages) = 0
    THEN EmptyMessages
    ELSE IF \E i \in 1..Len(messages) :
                messages[i].role = None \/ messages[i].content = Absent
         THEN LET i == CHOOSE k \in 1..Len(messages) :
                          /\ messages[k].role = None \/ messages[k].content = Absent
                          /\ \A j \in 1..(k - 1) :
                                messages[j].role # None /\ messages[j].content # Absent
              IN  IF messages[i].role = None THEN MissingRole ELSE MissingContent
         ELSE NoError

\* send_prompt_to_openrouter: what one invocation can end in.  usage_stats
\* of lines 177-184 holds no "cost".
send_prompt_to_openrouter(messages) ==
    IF ValidateMessages(messages) # NoError
    THEN { Reply("error", ValidateMessages(messages), NoUsage) }
    ELSE { Reply("error", e, NoUsage) : e \in UpstreamErrors \cup {MissingApiKey} }
         \cup
         { Reply("ok", NoError,
                 [prompt_tokens |-> Get(u, "prompt_tokens", 0),
                  completion_tokens |-> Get(u, "completion_tokens", 0),
                  total_tokens |-> Get(u, "total_tokens", 0)]) : u \in Usages }

\* rule_based_router.py line 555
IsTokenLimitError(e) ==
    \/ "maximum context length" \in e.text
    \/ "token" \in e.text
    \/ "too long" \in e.text

----------------------------------------------------------------------------
(* CostTracker.log_api_call: the row appended to logs/api_costs.csv        *)

log_api_call(model, usage_stats) ==
    LET cost_per_1k == Get(Get(models, model, <<>>), "cost_per_1k_tokens", 0)
        prompt_tokens == Get(usage_stats, "prompt_tokens", 0)
        completion_tokens == Get(usage_stats, "completion_tokens", 0)
        total_tokens == IF Get(usage_stats, "total_tokens", 0) # 0
                        THEN usage_stats["total_tokens"]
                        ELSE prompt_tokens + completion_tokens
    IN  [model |-> model, prompt_tokens |-> prompt_tokens,
         completion_tokens |-> completion_tokens, total_tokens |-> total_tokens,
         cost |-> total_tokens * cost_per_1k, session_id |-> current_session_id]

(* Texts.  A str is held as the first `upto` characters of the text named *)
(* `of`, followed by "..." when `dots`.                                     *)

Text(p) == [of |-> p.name, upto |-> p.chars, dots |-> FALSE]

\* len(text)
TextLen(t) == t.upto + (IF t.dots THEN 3 ELSE 0)

\* _truncate_text with text[:max_length] in place of text[:max_length-3]
truncate_text_then_dots(text, max_length) ==
    IF TextLen(text) <= max_length
    THEN text
    ELSE [of |-> text.of, upto |-> max_length, dots |-> TRUE]

\* ModelCallLogger._truncate_text, on a text that has not been cut before
truncate_text(text, max_length) ==
    IF TextLen(text) <= max_length
    THEN text
    ELSE [of |-> text.of, upto |-> max_length - 3, dots |-> TRUE]

\* sum of s[i][key] over the sequence s
RECURSIVE SumOf(_, _)
SumOf(s, key) == IF Len(s) = 0 THEN 0 ELSE s[1][key] + SumOf(Tail(s), key)

\* CostTracker.get_session_summary(sid) on the rows of logs/api_costs.csv,
\* without its per-model breakdown
get_session_summary(sid) ==
    LET session_data == SelectSeq(api_costs, LAMBDA row : row.session_id = sid)
    IN  IF Len(session_data) = 0
        THEN [session_id |-> sid, total_cost |-> 0, total_tokens |-> 0, calls |-> 0]
        ELSE [session_id |-> sid,
              total_cost |-> SumOf(session_data, "cost"),
              total_tokens |-> SumOf(session_data, "total_tokens"),
              calls |-> Len(session_data)]

(* ModelCallLogger.log_model_call: the log_entry built from the keyword    *)
(* arguments a, additional_metadata merged in                              *)

log_model_call(a) ==
    [session_id |-> a.session_id,
     prompt_id |-> a.prompt_id,
     model_id |-> a.model_id,
     prompt_type |-> a.prompt_type,
     length_category |-> a.length_category,
     strategy |-> a.strategy,
     manual_selection |-> a.manual_selection,
     token_count |-> Get(a.usage_stats, "total_tokens", 0),
     prompt_tokens |-> Get(a.usage_stats, "prompt_tokens", 0),
     completion_tokens |-> Get(a.usage_stats, "completion_tokens", 0),
     cost |-> Get(a.usage_stats, "cost", 0),
     success |-> a.success,
     error_type |-> a.error_type,
     query |-> truncate_text(Text(a.prompt_query), 100),
     full_query |-> Text(a.prompt_query),
     routing_explanation |-> a.routing_explanation,
     matched_patterns |-> a.matched_patterns,
     max_tokens |-> Get(a.additional_metadata, "max_tokens", 0),
     retry |-> Get(a.additional_metadata, "retry", FALSE),
     fallback_to |-> Get(a.additional_metadata, "fallback_to", None)]

\* json.dumps: how each value of a log_entry is spelled on its line
JsonLiteral(word) == <<"literal", word>>

JsonBool(b) == IF b THEN JsonLiteral("true") ELSE JsonLiteral("false")

JsonNumber(n) == <<"number", n>>

JsonString(x) == <<"string", x>>

JsonObject(d) == <<"object", d>>

BoolKeys == {"manual_selection", "success", "retry"}

NumberKeys == {"token_count", "prompt_tokens", "completion_tokens", "cost", "max_tokens"}

ObjectKeys == {"routing_explanation", "matched_patterns"}

NullableKeys == {"model_id", "prompt_type", "length_category", "strategy", "fallback_to"}

JsonEncode(k, v) ==
    IF k \in BoolKeys THEN JsonBool(v)
    ELSE IF k \in NumberKeys THEN JsonNumber(v)
    ELSE IF k \in ObjectKeys THEN JsonObject(v)
    ELSE IF k \in NullableKeys /\ v = None THEN JsonLiteral("null")
    ELSE IF k = "error_type" /\ v = NoError THEN JsonLiteral("null")
    ELSE JsonString(v)

\* a reader that takes true and false for words and applies bool() to
\* them: every non-empty word is True
JsonDecodeBoolOfWord(k, j) ==
    IF j = JsonLiteral("null") THEN (IF k = "error_type" THEN NoError ELSE None)
    ELSE IF j[1] = "literal" THEN TRUE
    ELSE j[2]

\* json.loads of one spelled value
JsonDecode(k, j) ==
    IF j = JsonLiteral("true") THEN TRUE
    ELSE IF j = JsonLiteral("false") THEN FALSE
    ELSE IF j = JsonLiteral("null") THEN (IF k = "error_type" THEN NoError ELSE None)
    ELSE j[2]

\* line 148: json.dumps(log_entry) with the timestamp of line 100
json_dumps(log_entry, timestamp) ==
    [k \in DOMAIN log_entry \cup {"timestamp"} |->
        IF k = "timestamp" THEN JsonString(timestamp) ELSE JsonEncode(k, log_entry[k])]

\* line 225: json.loads(line.strip())
json_loads(line) == [k \in DOMAIN line |-> JsonDecode(k, line[k])]

CsvColumns == {"session_id", "prompt_id", "model_id", "prompt_type", "length_category",
               "strategy", "manual_selection", "token_count", "prompt_tokens",
               "completion_tokens", "cost", "success", "error_type", "query"}

\* lines 154-172: the row of logs/model_calls.csv.  No call site passes an
\* additional_metadata key that is also a column, so the row holds the
\* values of the log_entry.
csv_entry(log_entry, timestamp) ==
    [k \in CsvColumns \cup {"timestamp"} |->
        IF k = "timestamp" THEN timestamp ELSE log_entry[k]]

\* an append outside any try/except: its exception goes to the caller
TryAppendUnguarded(ok) == IF ok THEN "appended" ELSE "raised"

\* lines 146-150 and 153-176: an append inside try/except; the exception of
\* a failed append is logged and goes no further
TryAppend(ok) == IF ok THEN "appended" ELSE "caught"

\* lines 145-176: the two appends of one log_model_call, in order
LogRun(jsonl_ok, csv_ok) ==
    IF TryAppend(jsonl_ok) = "raised"
    THEN [jsonl |-> "raised", csv |-> "skipped", outcome |-> "raised"]
    ELSE [jsonl |-> TryAppend(jsonl_ok), csv |-> TryAppend(csv_ok),
          outcome |-> IF TryAppend(csv_ok) = "raised" THEN "raised" ELSE "returned"]

\* the files after the log_model_call calls of a step, which built the
\* entries of model_calls' past those of model_calls; the clock of line 100
\* is taken to advance with every call
Store(jsonl_ok, csv_ok) ==
    \E n \in {Len(model_calls)}, run \in {LogRun(jsonl_ok, csv_ok)} :
        /\ log_file' =
                IF run.jsonl = "appended"
                THEN log_file \o [i \in 1..(Len(model_calls') - n) |->
                                    json_dumps(model_calls'[n + i], n + i)]
                ELSE log_file
        /\ csv_file' =
                IF run.csv = "appended"
                THEN csv_file \o [i \in 1..(Len(model_calls') - n) |->
                                    csv_entry(model_calls'[n + i], n + i)]
                ELSE csv_file

\* ModelCallLogger.get_calls_by_session: lines that do not parse are
\* skipped; every line of log_file was written whole by json.dumps
SortedByTimestamp(entries) ==
    LET n == Len(entries)
        Before(i, j) == \/ entries[i].timestamp < entries[j].timestamp
                        \/ entries[i].timestamp = entries[j].timestamp /\ i < j
        Rank(i) == 1 + Cardinality({ j \in 1..n : Before(j, i) })
    IN  [ r \in 1..n |-> entries[CHOOSE i \in 1..n : Rank(i) = r] ]

get_calls_by_session(sid) ==
    SortedByTimestamp(
        SelectSeq([i \in 1..Len(log_file) |-> json_loads(log_file[i])],
                  LAMBDA entry : Get(entry, "session_id", None) = sid))

----------------------------------------------------------------------------
(* RuleBasedRouter.send_prompt                                             *)

NoFrame == [depth |-> -1]

\* a thread that is not inside send_prompt
NoThread == [pc |-> "idle", frame |-> NoFrame]

\* no method has been called directly
NoCall == [op |-> "none"]

NonePatterns == [none |-> TRUE]

NoMetrics == [none |-> TRUE]

Result(kind, error, metrics) == [kind |-> kind, error |-> error, metrics |-> metrics]

\* lines 389-394: what send_prompt raises before it reaches the try block
EarlyError(messages) ==
    IF \E i \in 1..Len(messages) : messages[i].role = None
    THEN KeyErrorRole
    ELSE LET user_messages == SelectSeq(messages, LAMBDA m : m.role = "user")
         IN  IF Len(user_messages) = 0
             THEN NoUserMessage
             ELSE IF user_messages[Len(user_messages)].content = Absent
                  THEN KeyErrorContent
                  ELSE NoError

\* line 429 alone: the configured max_tokens as it is
uncapped_max_tokens(model_info) == Get(model_info, "max_tokens", 1000)

\* lines 429-434: max_tokens of the first upstream call of a frame
capped_max_tokens(model_info) ==
    LET max_tokens == Get(model_info, "max_tokens", 1000)
    IN  IF max_tokens > 4000 THEN 4000 ELSE max_tokens

\* lines 394-442: the locals of a frame entered with model_id = model_arg
\* (None for no override) and the attributes assigned up to the try block
Enter(messages, model_arg, depth) ==
    LET user_messages == SelectSeq(messages, LAMBDA m : m.role = "user")
        prompt == user_messages[Len(user_messages)].content
        prompt_id == next_uuid + 1
        sid == IF session_id = NoSession THEN next_uuid + 2 ELSE session_id
        manual_selection == model_arg # None
        sel == select_model(prompt, routing_strategy)
        c == classify_prompt(prompt)
        model_id == IF manual_selection THEN model_arg ELSE sel.model_id
        explanation ==
            IF manual_selection
            THEN [kind |-> "manual", model |-> model_arg,
                  prompt_type |-> None, strategy |-> None]
            ELSE sel.explanation
        model_info == Get(models, model_id, <<>>)
    IN  [frame |->
            [depth |-> depth,
             call |-> 0,
             messages |-> messages,
             prompt |-> prompt,
             prompt_id |-> prompt_id,
             session_id |-> sid,
             manual_selection |-> manual_selection,
             model_id |-> model_id,
             original_strategy |-> IF manual_selection THEN "manual" ELSE routing_strategy,
             length_category |->
                IF manual_selection
                THEN determine_length_category(estimate_token_count(prompt))
                ELSE Unbound,
             routing_explanation |->
                get_routing_explanation(explanation, routing_strategy, c.matched),
             max_tokens |-> capped_max_tokens(model_info),
             reduced_max_tokens |-> 0,
             prompt_tokens |-> estimate_token_count(prompt),
             e |-> NoError],
         session_id |-> sid,
         next_uuid |-> next_uuid + 2,
         matched |-> c.matched,
         reason |-> c.reason,
         explanation |-> explanation]

\* an invocation of send_prompt_to_openrouter, made when `before` entries
\* had been built by log_model_call
Issue(f, max_tokens, retry, before) ==
    [depth |-> f.depth, model |-> f.model_id, max_tokens |-> max_tokens,
     retry |-> retry, before |-> before, reply |-> Pending]

\* frame.call is the place in `upstream` of the call the frame waits for
Answered(o) == [upstream EXCEPT ![frame.call].reply = o]

\* lines 484-503 and 599-619
SuccessEntry(f, usage_stats, max_tokens, retry) ==
    log_model_call(
        [session_id |-> f.session_id, model_id |-> f.model_id,
         prompt_type |-> classify_prompt(f.prompt).type,
         prompt_query |-> f.prompt, usage_stats |-> usage_stats,
         routing_explanation |-> f.routing_explanation, prompt_id |-> f.prompt_id,
         length_category |-> determine_length_category(f.prompt_tokens),
         strategy |-> f.original_strategy, manual_selection |-> f.manual_selection,
         success |-> TRUE, error_type |-> NoError,
         matched_patterns |-> classify_prompt(f.prompt).matched,
         additional_metadata |->
            IF retry THEN [max_tokens |-> max_tokens, retry |-> TRUE]
                     ELSE [max_tokens |-> max_tokens]])

\* lines 520-526 and 633-638
failed_usage_stats(f) ==
    [prompt_tokens |-> f.prompt_tokens, completion_tokens |-> 0,
     total_tokens |-> f.prompt_tokens, cost |-> 0]

\* lines 529-549: self.prompt_type is never assigned, so getattr gives
\* "unknown"; length_category is a local only once line 418 or 459 ran
FailedEntry(f, e, length_category, matched) ==
    log_model_call(
        [session_id |-> f.session_id, model_id |-> f.model_id,
         prompt_type |-> "unknown",
         prompt_query |-> f.prompt, usage_stats |-> failed_usage_stats(f),
         routing_explanation |-> f.routing_explanation, prompt_id |-> f.prompt_id,
         length_category |-> IF length_category = Unbound THEN None ELSE length_category,
         strategy |-> f.original_strategy, manual_selection |-> f.manual_selection,
         success |-> FALSE, error_type |-> e,
         matched_patterns |-> matched,
         additional_metadata |-> [max_tokens |-> f.max_tokens]])

\* lines 640-661
FailedRetryEntry(f, retry_error, matched) ==
    log_model_call(
        [session_id |-> f.session_id, model_id |-> f.model_id,
         prompt_type |-> "unknown",
         prompt_query |-> f.prompt, usage_stats |-> failed_usage_stats(f),
         routing_explanation |-> f.routing_explanation, prompt_id |-> f.prompt_id,
         length_category |-> determine_length_category(f.prompt_tokens),
         strategy |-> f.original_strategy, manual_selection |-> f.manual_selection,
         success |-> FALSE, error_type |-> retry_error,
         matched_patterns |-> matched,
         additional_metadata |-> [max_tokens |-> f.reduced_max_tokens, retry |-> TRUE]])

\* the record of lines 672-690 with model_id=self.default_model
FallbackEntryOfDefault(f, e) ==
    log_model_call(
        [session_id |-> f.session_id, model_id |-> default_model,
         prompt_type |-> "unknown",
         prompt_query |-> f.prompt,
         usage_stats |-> [prompt_tokens |-> f.prompt_tokens, completion_tokens |-> 0,
                          total_tokens |-> f.prompt_tokens],
         routing_explanation |->
            [explanation |-> [kind |-> "fallback", model |-> default_model,
                              prompt_type |-> None, strategy |-> None]],
         prompt_id |-> f.prompt_id,
         length_category |-> determine_length_category(f.prompt_tokens),
         strategy |-> "fallback", manual_selection |-> FALSE,
         success |-> FALSE, error_type |-> e,
         matched_patterns |-> NonePatterns,
         additional_metadata |-> [fallback_to |-> default_model]])

\* lines 672-690
FallbackEntry(f, e) ==
    log_model_call(
        [session_id |-> f.session_id, model_id |-> f.model_id,
         prompt_type |-> "unknown",
         prompt_query |-> f.prompt,
         usage_stats |-> [prompt_tokens |-> f.prompt_tokens, completion_tokens |-> 0,
                          total_tokens |-> f.prompt_tokens],
         routing_explanation |->
            [explanation |-> [kind |-> "fallback", model |-> default_model,
                              prompt_type |-> None, strategy |-> None]],
         prompt_id |-> f.prompt_id,
         length_category |-> determine_length_category(f.prompt_tokens),
         strategy |-> "fallback", manual_selection |-> FALSE,
         success |-> FALSE, error_type |-> e,
         matched_patterns |-> NonePatterns,
         additional_metadata |-> [fallback_to |-> default_model]])

\* lines 462-475 and 578-590
Metrics(f, usage_stats, retry) ==
    [model |-> f.model_id, prompt_type |-> classify_prompt(f.prompt).type,
     token_count |-> Get(usage_stats, "total_tokens", 0),
     routing_explanation |-> f.routing_explanation,
     session_id |-> f.session_id, prompt_id |-> f.prompt_id, retry |-> retry]

----------------------------------------------------------------------------
(* Actions *)

Init ==
    /\ routing_strategy = "balanced"
    /\ session_id = NoSession
    /\ matched_patterns = NonePatterns
    /\ prompt_detection_reason = <<"none", 0>>
    /\ model_selection_explanation =
            [kind |-> "none", model |-> None, prompt_type |-> None, strategy |-> None]
    /\ next_uuid = 0
    /\ pc = "idle"
    /\ frame = NoFrame
    /\ upstream = <<>>
    /\ model_calls = <<>>
    /\ api_costs = <<>>
    /\ invocation = 0
    /\ mark = [upstream |-> 0, model_calls |-> 0, api_costs |-> 0, model_arg |-> None]
    /\ result = Result("none", NoError, NoMetrics)
    /\ log_file = <<>>
    /\ csv_file = <<>>
    /\ other = NoThread
    /\ ret = NoCall

\* RuleBasedRouter.set_routing_strategy
set_routing_strategy(strategy) ==
    /\ pc = "idle"
    /\ routing_strategy' =
            IF strategy \in {"balanced", "cost", "speed", "quality"}
            THEN strategy
            ELSE "balanced"
    /\ UNCHANGED <<session_id, matched_patterns, prompt_detection_reason,
                   model_selection_explanation, next_uuid, pc, frame, upstream,
                   model_calls, api_costs, invocation, mark, result, log_file,
                   csv_file, other, ret>>

\* the exception e leaves the outermost frame: frames below it are inside
\* the except block of line 694 and do not catch it
Raise(e, calls, entries, matched, reason) ==
    /\ pc' = "idle"
    /\ frame' = NoFrame
    /\ result' = Result("raised", e, NoMetrics)
    /\ upstream' = calls
    /\ model_calls' = entries
    /\ matched_patterns' = matched
    /\ prompt_detection_reason' = reason
    /\ UNCHANGED <<session_id, model_selection_explanation, next_uuid>>

\* lines 389-451: a frame runs up to its first upstream call
Call(messages, model_arg, depth, calls, entries, matched, reason) ==
    IF EarlyError(messages) # NoError
    THEN Raise(EarlyError(messages), calls, entries, matched, reason)
    ELSE \E en \in {Enter(messages, model_arg, depth)} :
             /\ pc' = "call"
             /\ frame' = [en.frame EXCEPT !.call = Len(calls) + 1]
             /\ session_id' = en.session_id
             /\ next_uuid' = en.next_uuid
             /\ matched_patterns' = en.matched
             /\ prompt_detection_reason' = en.reason
             /\ model_selection_explanation' = en.explanation
             /\ upstream' = Append(calls, Issue(en.frame, en.frame.max_tokens, FALSE,
                                                 Len(entries)))
             /\ model_calls' = entries
             /\ UNCHANGED result

\* line 667 without its comparison: every failure falls back
FallbackAlways(f, e, calls, entries, matched, reason) ==
    Call(f.messages, default_model, f.depth + 1, calls,
         Append(entries, FallbackEntry(f, e)), matched, reason)

\* lines 666-694 dropped: every failure is raised at once
FallbackNever(f, e, calls, entries, matched, reason) ==
    Raise(e, calls, entries, matched, reason)

\* line 667 testing the outermost frame instead of the model
FallbackAtTopLevel(f, e, calls, entries, matched, reason) ==
    IF f.depth = 0
    THEN Call(f.messages, default_model, f.depth + 1, calls,
              Append(entries, FallbackEntry(f, e)), matched, reason)
    ELSE Raise(e, calls, entries, matched, reason)

\* lines 671-692 dropped: the fallback is made without its record
FallbackUnrecorded(f, e, calls, entries, matched, reason) ==
    IF f.model_id # default_model
    THEN Call(f.messages, default_model, f.depth + 1, calls, entries, matched, reason)
    ELSE Raise(e, calls, entries, matched, reason)

\* lines 666-697
FallbackOrRaise(f, e, calls, entries, matched, reason) ==
    IF f.model_id # default_model
    THEN Call(f.messages, default_model, f.depth + 1, calls,
              Append(entries, FallbackEntry(f, e)), matched, reason)
    ELSE Raise(e, calls, entries, matched, reason)

\* send_prompt taking the model from select_model whatever model_id is
send_prompt_without_override(messages, model_arg) ==
    /\ pc = "idle"
    /\ invocation' = invocation + 1
    /\ mark' = [upstream |-> Len(upstream), model_calls |-> Len(model_calls),
                api_costs |-> Len(api_costs), model_arg |-> model_arg]
    /\ api_costs' = api_costs
    /\ Call(messages, None, 0, upstream, model_calls,
            matched_patterns, prompt_detection_reason)
    /\ Store(TRUE, TRUE)
    /\ UNCHANGED <<routing_strategy, other, ret>>

\* a top-level invocation of send_prompt
send_prompt(messages, model_arg) ==
    /\ pc = "idle"
    /\ invocation' = invocation + 1
    /\ mark' = [upstream |-> Len(upstream), model_calls |-> Len(model_calls),
                api_costs |-> Len(api_costs), model_arg |-> model_arg]
    /\ api_costs' = api_costs
    /\ Call(messages, model_arg, 0, upstream, model_calls,
            matched_patterns, prompt_detection_reason)
    /\ Store(TRUE, TRUE)
    /\ UNCHANGED <<routing_strategy, other, ret>>

\* lines 453-508 and 570-624: the upstream answered, the cost row and the
\* entry are written and send_prompt returns
Return(f, c, usage_stats, max_tokens, retry) ==
    /\ api_costs' = Append(api_costs, log_api_call(f.model_id, usage_stats))
    /\ model_calls' = Append(model_calls, SuccessEntry(f, usage_stats, max_tokens, retry))
    /\ upstream' = [upstream EXCEPT ![f.call].reply = Reply("ok", NoError, usage_stats)]
    /\ matched_patterns' = c.matched
    /\ prompt_detection_reason' = c.reason
    /\ result' = Result("returned", NoError, Metrics(f, usage_stats, retry))
    /\ pc' = "idle"
    /\ frame' = NoFrame
    /\ UNCHANGED <<session_id, model_selection_explanation, next_uuid>>

\* lines 510-568: the handler of the outer try block, entered with the
\* exception e when `matched`, `reason` and `length_category` are the
\* attributes and the local it finds
Handle(g, calls, matched, reason, length_category) ==
    \E entries \in {Append(model_calls, FailedEntry(g, g.e, length_category, matched))} :
        /\ api_costs' = api_costs
        /\ IF IsTokenLimitError(g.e)
           THEN /\ pc' = "retry"
                /\ frame' = [g EXCEPT !.call = Len(calls) + 1]
                /\ upstream' = Append(calls, Issue(g, g.reduced_max_tokens, TRUE,
                                                    Len(entries)))
                /\ model_calls' = entries
                /\ matched_patterns' = matched
                /\ prompt_detection_reason' = reason
                /\ UNCHANGED <<session_id, model_selection_explanation,
                               next_uuid, result>>
           ELSE FallbackOrRaise(g, g.e, calls, entries, matched, reason)

\* lines 446-568: the first upstream call of the frame ends in o;
\* cost_log_ok tells whether CostTracker.log_api_call can append its row
first_call_ends(o, cost_log_ok) ==
    /\ pc = "call"
    /\ o \in send_prompt_to_openrouter(frame.messages)
    /\ o.status = "error" => cost_log_ok
    /\ \E c \in {classify_prompt(frame.prompt)}, calls \in {Answered(o)} :
        IF o.status = "ok"
        THEN IF cost_log_ok
             THEN Return(frame, c, o.usage, frame.max_tokens, FALSE)
             ELSE \E length_category \in {determine_length_category(frame.prompt_tokens)} :
                    Handle([frame EXCEPT !.e = CostLogError,
                                         !.length_category = length_category,
                                         !.reduced_max_tokens = Max2(frame.max_tokens \div 2, 500)],
                           calls, c.matched, c.reason, length_category)
        ELSE Handle([frame EXCEPT !.e = o.error,
                                  !.reduced_max_tokens = Max2(frame.max_tokens \div 2, 500)],
                    calls, matched_patterns, prompt_detection_reason,
                    frame.length_category)
    /\ Store(TRUE, TRUE)
    /\ UNCHANGED <<routing_strategy, invocation, mark, other, ret>>

\* lines 626-697: the handler of the retry's try block
HandleRetry(f, retry_error, calls, matched, reason) ==
    /\ api_costs' = api_costs
    /\ FallbackOrRaise(f, f.e, calls,
                       Append(model_calls, FailedRetryEntry(f, retry_error, matched)),
                       matched, reason)

\* lines 562-697: the context-length retry of the frame ends in o
retry_ends(o, cost_log_ok) ==
    /\ pc = "retry"
    /\ o \in send_prompt_to_openrouter(frame.messages)
    /\ o.status = "error" => cost_log_ok
    /\ \E c \in {classify_prompt(frame.prompt)}, calls \in {Answered(o)} :
        IF o.status = "ok"
        THEN IF cost_log_ok
             THEN Return(frame, c, o.usage, frame.reduced_max_tokens, TRUE)
             ELSE HandleRetry(frame, CostLogError, calls, c.matched, c.reason)
        ELSE HandleRetry(frame, o.error, calls, matched_patterns,
                         prompt_detection_reason)
    /\ Store(TRUE, TRUE)
    /\ UNCHANGED <<routing_strategy, invocation, mark, other, ret>>

StrategyArgs == {"balanced", "cost", "speed", "quality", "fastest"}

ModelArgs == {None, Sonnet, default_model, InvalidModel}

\* every reply send_prompt_to_openrouter can give
Replies == UNION { send_prompt_to_openrouter(m) : m \in MessageLists }

\* One invocation of send_prompt on a router just constructed, under any
\* routing strategy, any messages, any override and any upstream behaviour.
Next ==
    \/ \E s \in StrategyArgs : invocation = 0 /\ set_routing_strategy(s)
    \/ \E m \in MessageLists, a \in ModelArgs : invocation = 0 /\ send_prompt(m, a)
    \/ \E o \in Replies, ok \in BOOLEAN : first_call_ends(o, ok)
    \/ \E o \in Replies, ok \in BOOLEAN : retry_ends(o, ok)

Spec == Init /\ [][Next]_vars

\* Several invocations one after the other on the same router, with one
\* prompt and an upstream that answers, times out or finds the context
\* too long.
SeqMessageLists == { <<Msg("user", Fib)>>, <<>> }

SeqModelArgs == {None, default_model}

SeqReplies == { o \in Replies : o.error.kind \in {"none", "timeout", "context_length"} }

SeqNext ==
    \/ \E s \in {"cost", "fastest"} : invocation < MaxInvocations /\ set_routing_strategy(s)
    \/ \E m \in SeqMessageLists, a \in SeqModelArgs :
            invocation < MaxInvocations /\ send_prompt(m, a)
    \/ \E o \in SeqReplies : first_call_ends(o, TRUE)
    \/ \E o \in SeqReplies : retry_ends(o, TRUE)

SeqSpec == Init /\ [][SeqNext]_vars

\* Spec with every upstream call answered sooner or later
FairSpec ==
    /\ Spec
    /\ WF_vars(\E o \in Replies, ok \in BOOLEAN : first_call_ends(o, ok))
    /\ WF_vars(\E o \in Replies, ok \in BOOLEAN : retry_ends(o, ok))

----------------------------------------------------------------------------
(* ModelCallLogger called directly, with storage that can fail              *)

\* prompts of 100 and of 101 characters, next to one of 62
Hundred == [name |-> "hundred", code |-> 0, summary |-> 0, question |-> 1,
            brackets |-> FALSE, lines |-> 1, chars |-> 100, tiktoken |-> 25]

HundredOne == [name |-> "hundredone", code |-> 0, summary |-> 0, question |-> 1,
               brackets |-> FALSE, lines |-> 1, chars |-> 101, tiktoken |-> 25]

LogPrompts == {Fib, Hundred, HundredOne}

LogSessions == {1, 2}

\* the keyword arguments of one log_model_call
LogArgs(sid, pid, prompt, success) ==
    [session_id |-> sid, model_id |-> Sonnet,
     prompt_type |-> classify_prompt(prompt).type,
     prompt_query |-> prompt,
     usage_stats |-> IF success
                     THEN [prompt_tokens |-> 800, completion_tokens |-> 400,
                           total_tokens |-> 1200, cost |-> 360]
                     ELSE [prompt_tokens |-> prompt.tiktoken, completion_tokens |-> 0,
                           total_tokens |-> prompt.tiktoken],
     routing_explanation |-> [none |-> TRUE], prompt_id |-> pid,
     length_category |-> determine_length_category(prompt.tiktoken),
     strategy |-> "balanced", manual_selection |-> FALSE,
     success |-> success,
     error_type |-> IF success THEN NoError ELSE Err("timeout", {"Read timed out"}),
     matched_patterns |-> classify_prompt(prompt).matched,
     additional_metadata |-> <<>>]

\* ModelCallLogger.log_model_call called with the arguments a, when the
\* append to the JSONL file and the append to the CSV file work as told
call_log_model_call(a, jsonl_ok, csv_ok) ==
    /\ pc = "idle"
    /\ Len(model_calls) < MaxRecords
    /\ model_calls' = Append(model_calls, log_model_call(a))
    /\ Store(jsonl_ok, csv_ok)
    /\ ret' = [op |-> "log_model_call", prompt_id |-> a.prompt_id,
               prompt_query |-> a.prompt_query,
               jsonl_ok |-> jsonl_ok, csv_ok |-> csv_ok,
               value |-> LogRun(jsonl_ok, csv_ok).outcome]
    /\ UNCHANGED <<routing_strategy, session_id, matched_patterns,
                   prompt_detection_reason, model_selection_explanation, next_uuid,
                   pc, frame, upstream, api_costs, invocation, mark, result, other>>

\* ModelCallLogger.get_calls_by_session called with the session id sid
call_get_calls_by_session(sid) ==
    /\ pc = "idle"
    /\ ret' = [op |-> "get_calls_by_session", session_id |-> sid,
               value |-> get_calls_by_session(sid)]
    /\ UNCHANGED <<routing_strategy, session_id, matched_patterns,
                   prompt_detection_reason, model_selection_explanation, next_uuid,
                   pc, frame, upstream, model_calls, api_costs, invocation, mark,
                   result, log_file, csv_file, other>>

LogNext ==
    \/ \E sid \in LogSessions, prompt \in LogPrompts, success \in BOOLEAN,
          jsonl_ok \in BOOLEAN, csv_ok \in BOOLEAN :
            call_log_model_call(LogArgs(sid, Len(model_calls) + 1, prompt, success),
                                jsonl_ok, csv_ok)
    \/ \E sid \in LogSessions : call_get_calls_by_session(sid)

LogSpec == Init /\ [][LogNext]_vars

----------------------------------------------------------------------------
(* Two threads calling send_prompt on one router.  pc and frame are those  *)
(* of the running thread, `other` holds the thread that is not running.    *)
(* A thread gives way while it waits in send_prompt_to_openrouter (lines   *)
(* 446-451 and 562-567) or between two of its invocations; the statements  *)
(* between two upstream calls run without a switch.                        *)

switch ==
    /\ pc # "idle" \/ other.pc # "idle"
    /\ pc' = other.pc
    /\ frame' = other.frame
    /\ other' = [pc |-> pc, frame |-> frame]
    /\ UNCHANGED <<routing_strategy, session_id, matched_patterns,
                   prompt_detection_reason, model_selection_explanation, next_uuid,
                   upstream, model_calls, api_costs, invocation, mark, result,
                   log_file, csv_file, ret>>

Essay == CHOOSE p \in Prompts : p.name = "essay"

ConcMessageLists == { <<Msg("user", Fib)>>, <<Msg("user", Essay)>> }

ConcNext ==
    \/ \E m \in ConcMessageLists : invocation < MaxInvocations /\ send_prompt(m, None)
    \/ switch
    \/ \E o \in SeqReplies : first_call_ends(o, TRUE)
    \/ \E o \in SeqReplies : retry_ends(o, TRUE)

ConcSpec == Init /\ [][ConcNext]_vars

----------------------------------------------------------------------------
(* classify_prompt called again and again on one router.  ret.first holds  *)
(* what the first classification of each prompt returned and assigned.     *)

RepeatPrompts ==
    [name : {"repeat"}, code : {0, 1}, summary : {0, 1}, question : {0, 1},
     brackets : {FALSE}, lines : {1}, chars : {62}, tiktoken : {12}]

NoneClassified == [p \in {} |-> p]

call_classify_prompt_again(p) ==
    /\ pc = "idle"
    /\ ret.op \in {"none", "classify_prompt_again"}
    /\ \E c \in {classify_prompt(p)},
          first \in {IF ret = NoCall THEN NoneClassified ELSE ret.first} :
        /\ matched_patterns' = c.matched
        /\ prompt_detection_reason' = c.reason
        /\ ret' = [op |-> "classify_prompt_again", arg |-> p, value |-> c.type,
                   again |-> p \in DOMAIN first,
                   first |-> IF p \in DOMAIN first THEN first ELSE (p :> c) @@ first]
    /\ UNCHANGED <<routing_strategy, session_id, model_selection_explanation,
                   next_uuid, pc, frame, upstream, model_calls, api_costs,
                   invocation, mark, result, log_file, csv_file, other>>

RepeatNext == \E p \in RepeatPrompts : call_classify_prompt_again(p)

RepeatSpec == Init /\ [][RepeatNext]_vars

----------------------------------------------------------------------------
(* A router constructed from a configuration: config["models"] holds up    *)
(* to MaxCatalog models, in any order of insertion, each with a            *)
(* cost_per_1k_tokens, equal ones included.                                *)

ModelIds == {Haiku, Sonnet, Gpt4o}

Prices == {25, 300, 500}

Orders ==
    { order \in UNION { [1..n -> ModelIds] : n \in 0..MaxCatalog } :
        \A i, j \in 1..Len(order) : order[i] = order[j] => i = j }

Catalogs(order) ==
    [ { order[i] : i \in 1..Len(order) } -> [cost_per_1k_tokens : Prices] ]

\* RuleBasedRouter.__init__: the strategy_preferences of the new router
construct(order, catalog) ==
    /\ pc = "idle"
    /\ ret = NoCall
    /\ ret' = [op |-> "__init__", order |-> order, models |-> catalog,
               strategy_preferences |-> initialize_strategy_preferences(order, catalog)]
    /\ UNCHANGED <<routing_strategy, session_id, matched_patterns,
                   prompt_detection_reason, model_selection_explanation, next_uuid,
                   pc, frame, upstream, model_calls, api_costs, invocation, mark,
                   result, log_file, csv_file, other>>

ConfigNext == \E order \in Orders : \E catalog \in Catalogs(order) : construct(order, catalog)

ConfigSpec == Init /\ [][ConfigNext]_vars

----------------------------------------------------------------------------
(* Single methods called directly, the outcome of the call held in ret.   *)
(* None of them reads an attribute that a call of them assigns, so a       *)
(* behaviour makes one call, on a router that has made none but            *)
(* set_routing_strategy.                                                   *)

\* a prompt of no characters matches nothing and is one line; a prompt
\* has no more lines and no more tokens than characters
UnitPrompts ==
    { p \in [name : {"unit"}, code : 0..MaxMatches, summary : 0..MaxMatches,
             question : 0..MaxMatches, brackets : BOOLEAN, lines : {1, 3, 4},
             chars : {0, 62, 1000, 1001, 2400}, tiktoken : {0, 12, 600, 2250}] :
        /\ p.tiktoken <= p.chars
        /\ p.lines <= p.chars + 1
        /\ p.tiktoken = 0 <=> p.chars = 0
        /\ p.chars = 0 => ~p.brackets /\ p.code + p.summary + p.question = 0 }

\* the empty string as the content of a message
EmptyText == [name |-> "empty", code |-> 0, summary |-> 0, question |-> 0,
              brackets |-> FALSE, lines |-> 1, chars |-> 0, tiktoken |-> 0]

\* "" as a role is the key "role" holding the empty string
UnitMessageLists ==
    { <<>>,
      <<Msg("user", Fib)>>,
      <<Msg("system", SystemText), Msg("user", Fib)>>,
      <<Msg(None, Fib)>>,
      <<Msg("system", Absent), Msg("user", Fib)>>,
      <<Msg("user", Fib), Msg(None, Absent)>>,
      <<Msg("", Fib)>>,
      <<Msg("user", EmptyText)>>,
      <<Msg("system", SystemText), Msg("", EmptyText)>> }

\* RuleBasedRouter.classify_prompt called with the prompt p
call_classify_prompt(p) ==
    /\ pc = "idle"
    /\ ret = NoCall
    /\ \E c \in {classify_prompt(p)} :
        /\ matched_patterns' = c.matched
        /\ prompt_detection_reason' = c.reason
        /\ ret' = [op |-> "classify_prompt", arg |-> p, value |-> c.type]
    /\ UNCHANGED <<routing_strategy, session_id, model_selection_explanation,
                   next_uuid, pc, frame, upstream, model_calls, api_costs,
                   invocation, mark, result, log_file, csv_file, other>>

\* RuleBasedRouter.select_model called with the prompt p
call_select_model(p) ==
    /\ pc = "idle"
    /\ ret = NoCall
    /\ \E sel \in {select_model(p, routing_strategy)} :
        /\ matched_patterns' = sel.matched
        /\ prompt_detection_reason' = sel.reason
        /\ model_selection_explanation' = sel.explanation
        /\ ret' = [op |-> "select_model", arg |-> p, value |-> sel.model_id]
    /\ UNCHANGED <<routing_strategy, session_id, next_uuid, pc, frame, upstream,
                   model_calls, api_costs, invocation, mark, result, log_file,
                   csv_file, other>>

\* RuleBasedRouter.determine_length_category called with token_count
call_determine_length_category(token_count) ==
    /\ pc = "idle"
    /\ ret = NoCall
    /\ ret' = [op |-> "determine_length_category", arg |-> token_count,
               value |-> determine_length_category(token_count)]
    /\ UNCHANGED <<routing_strategy, session_id, matched_patterns,
                   prompt_detection_reason, model_selection_explanation, next_uuid,
                   pc, frame, upstream, model_calls, api_costs, invocation, mark,
                   result, log_file, csv_file, other>>

\* send_prompt_to_openrouter called with messages and ending in reply; the
\* request of line 144 is made when the call ends in a response or in an
\* error of the request or the response
call_send_prompt_to_openrouter(messages, reply) ==
    /\ pc = "idle"
    /\ ret = NoCall
    /\ reply \in send_prompt_to_openrouter(messages)
    /\ ret' = [op |-> "send_prompt_to_openrouter", arg |-> messages,
               value |-> reply,
               requested |-> reply.status = "ok" \/ reply.error \in UpstreamErrors]
    /\ UNCHANGED <<routing_strategy, session_id, matched_patterns,
                   prompt_detection_reason, model_selection_explanation, next_uuid,
                   pc, frame, upstream, model_calls, api_costs, invocation, mark,
                   result, log_file, csv_file, other>>

UnitNext ==
    \/ \E s \in StrategyArgs : ret = NoCall /\ set_routing_strategy(s)
    \/ \E p \in UnitPrompts : call_classify_prompt(p)
    \/ \E p \in UnitPrompts : call_select_model(p)
    \/ \E token_count \in 0..MaxTokenCount :
            call_determine_length_category(token_count)
    \/ \E messages \in UnitMessageLists :
            \E reply \in send_prompt_to_openrouter(messages) :
                call_send_prompt_to_openrouter(messages, reply)

UnitSpec == Init /\ [][UnitNext]_vars

----------------------------------------------------------------------------
(* The running or last top-level invocation *)

Since(s, n) == SubSeq(s, n + 1, Len(s))

Calls == Since(upstream, mark.upstream)

Entries == Since(model_calls, mark.model_calls)

Rows == Since(api_costs, mark.api_costs)

Ended == pc = "idle" /\ result.kind # "none"

\* switches to the default model made by the invocation
Fallbacks == IF Len(Calls) = 0 THEN 0 ELSE Cardinality({ Calls[i].depth : i \in 1..Len(Calls) }) - 1

IsSuccess(r) == r.success

IsOk(c) == c.reply.status = "ok"

----------------------------------------------------------------------------
(* C1 *)

\* C1 as claimed: one top-level send_prompt makes at most 3 invocations of
\* send_prompt_to_openrouter.
C1_AtMostThreeCalls == Len(Calls) <= 3

\* C1 amended: one top-level send_prompt makes at most 4 invocations of
\* send_prompt_to_openrouter, a first call and a context-length retry on the
\* selected model and the same two on the default model.
C1_AtMostFourCalls == Len(Calls) <= 4

C1_FourCallsMade ==
    /\ Ended
    /\ Len(Calls) = 4
    /\ Calls[2].retry /\ Calls[4].retry
    /\ Calls[3].model = default_model

(* C2 *)

\* C2 as claimed: after an invocation the entries built by log_model_call
\* are as many as the upstream attempts, and the cost rows as many as the
\* attempts the upstream answered.
C2_OneEntryPerAttempt ==
    Ended => /\ Len(Entries) = Len(Calls)
             /\ Len(Rows) = Cardinality({ i \in 1..Len(Calls) : IsOk(Calls[i]) })

\* C2 amended: after an invocation the entries built by log_model_call are
\* one per upstream attempt plus one for each switch to the default model,
\* and the cost rows are as many as the entries with success = true.
C2_EntriesAndRows ==
    Ended => /\ Len(Entries) = Len(Calls) + Fallbacks
             /\ Len(Rows) = Cardinality({ i \in 1..Len(Entries) : IsSuccess(Entries[i]) })

C2_FallbackThenSuccess ==
    /\ Ended
    /\ Fallbacks = 1
    /\ Len(Calls) = 2
    /\ Len(Entries) = 3
    /\ Len(Rows) = 1

(* C3 *)

\* C3: once the upstream has answered a call, a failure of
\* CostTracker.log_api_call changes nothing: the call is the last of the
\* invocation, the response is returned and the last entry has success = true.
C3_RecordingFailureSwallowed ==
    \A i \in 1..Len(Calls) :
        IsOk(Calls[i]) =>
            /\ i = Len(Calls)
            /\ pc = "idle"
            /\ result.kind = "returned"
            /\ Entries[Len(Entries)].success

(* C4 *)

\* C4: after a validation error or a credentials error of the gateway no
\* second gateway call is made and that error is raised.
C4_NoCallAfterValidationOrAuth ==
    \A i \in 1..Len(Calls) :
        Calls[i].reply.error.kind \in {"validation", "auth"} =>
            /\ Len(Calls) = 1
            /\ pc = "idle"
            /\ result = Result("raised", Calls[i].reply.error, NoMetrics)

(* C5 *)

\* C5 as claimed: whenever send_prompt raises, the default model has been
\* called upstream in the invocation and that call has failed.
C5_RaisesOnlyAfterDefaultFailed ==
    result.kind = "raised" =>
        \E i \in 1..Len(Calls) :
            Calls[i].model = default_model /\ Calls[i].reply.status = "error"

\* C5 amended: send_prompt ends in a response or in one exception; when it
\* raises, either no upstream call was made and the exception is the one of
\* lines 390-394 (no user message, or a message without a key), or the last
\* upstream call was made on the default model and the last entry records a
\* failed attempt on the default model.
C5_RaisesEarlyOrAfterDefault ==
    /\ Ended => result.kind \in {"returned", "raised"}
    /\ result.kind = "returned" => result.error = NoError
    /\ result.kind = "raised" =>
        \/ /\ Len(Calls) = 0
           /\ result.error \in {NoUserMessage, KeyErrorRole, KeyErrorContent}
        \/ /\ Len(Calls) > 0
           /\ Calls[Len(Calls)].model = default_model
           /\ Calls[Len(Calls)].reply.status # "pending"
           /\ Entries[Len(Entries)].model_id = default_model
           /\ ~Entries[Len(Entries)].success
           /\ result.error # NoError

C5_RaisedAfterFallback ==
    /\ result.kind = "raised"
    /\ Fallbacks = 1
    /\ Calls[Len(Calls)].reply.status = "error"

(* C6 *)

\* C6: after a rate-limit, timeout or other upstream error the same model is
\* not called again: the next call of the invocation, if any, is the first
\* call of the frame entered for the default model.
C6_NoSameModelRetry ==
    \A i \in 1..Len(Calls) :
        Calls[i].reply.error.kind \in {"rate_limit", "timeout", "upstream"} =>
            \/ i = Len(Calls)
            \/ /\ Calls[i + 1].model = default_model
               /\ Calls[i + 1].depth = Calls[i].depth + 1
               /\ ~Calls[i + 1].retry

(* C7 *)

\* C7: a first call that fails with a token-limit error is followed by one
\* retry on the same model with max_tokens = max(max_tokens // 2, 500); when
\* the upstream answers the retry, the response is returned with retry = true
\* and the last entry has success = true.
C7_RetryOnceHalved ==
    \A i \in 1..Len(Calls) :
        (~Calls[i].retry /\ IsTokenLimitError(Calls[i].reply.error)) =>
            /\ i + 1 <= Len(Calls)
            /\ Calls[i + 1].retry
            /\ Calls[i + 1].model = Calls[i].model
            /\ Calls[i + 1].depth = Calls[i].depth
            /\ Calls[i + 1].max_tokens = Max2(Calls[i].max_tokens \div 2, 500)
            /\ (i + 2 <= Len(Calls) => ~Calls[i + 2].retry)
            /\ IsOk(Calls[i + 1]) =>
                    /\ result.kind = "returned"
                    /\ result.metrics.retry
                    /\ Entries[Len(Entries)].success

(* C8 *)

\* C8: every entry with success = true has
\* cost = token_count * cost_per_1k_tokens(model_id) / 1000, and cost >= 0.
C8_CostOfSuccess ==
    \A i \in 1..Len(model_calls) :
        model_calls[i].success =>
            /\ model_calls[i].cost >= 0
            /\ model_calls[i].cost =
                  model_calls[i].token_count *
                  Get(Get(models, model_calls[i].model_id, <<>>), "cost_per_1k_tokens", 0)

(* C9 *)

\* C9: the entries of one top-level invocation carry one prompt_id and one
\* session_id, and no entry of an earlier invocation carries that prompt_id.
C9_OnePromptIdPerInvocation ==
    /\ \A i, j \in 1..Len(Entries) :
            /\ Entries[i].prompt_id = Entries[j].prompt_id
            /\ Entries[i].session_id = Entries[j].session_id
    /\ \A i \in 1..mark.model_calls, j \in 1..Len(Entries) :
            model_calls[i].prompt_id # Entries[j].prompt_id

(* C10 *)

IsFallbackEntry(r) == r.strategy = "fallback"

\* C10: every invocation of send_prompt ends once its upstream calls are
\* answered; send_prompt enters itself at most once per invocation and only
\* for the default model; no fallback entry is written for a failure of the
\* default model, and when a call on the default model fails with no retry
\* left to make, it is the last call of the invocation and send_prompt raises.
C10_Terminates ==
    /\ [](/\ \A i \in 1..Len(Calls) :
                /\ Calls[i].depth <= 1
                /\ Calls[i].depth = 1 => Calls[i].model = default_model
          /\ \A j \in 1..Len(Entries) :
                IsFallbackEntry(Entries[j]) => Entries[j].model_id # default_model
          /\ Cardinality({ j \in 1..Len(Entries) : IsFallbackEntry(Entries[j]) }) <= 1
          /\ \A i \in 1..Len(Calls) :
                (/\ Calls[i].model = default_model
                 /\ Calls[i].reply.status = "error"
                 /\ Calls[i].retry \/ ~IsTokenLimitError(Calls[i].reply.error)) =>
                    /\ i = Len(Calls)
                    /\ pc = "idle"
                    /\ result.kind = "raised")
    /\ (pc # "idle") ~> (pc = "idle")

C10_DefaultModelRaised ==
    /\ result.kind = "raised"
    /\ Len(Calls) = 1
    /\ Calls[1].model = default_model
    /\ Calls[1].depth = 0
    /\ Len(Entries) = 1

(* C11 *)

\* C11: every entry built by log_model_call for send_prompt has a model_id
\* that is a key of the configured models.
C11_ModelIdInCatalog ==
    \A i \in 1..Len(model_calls) : model_calls[i].model_id \in DOMAIN models

(* C12 *)

\* C12: when send_prompt is given an override that is no key of the
\* configured models, either the first upstream call is made on the default
\* model or the invocation ends by raising.  An upstream call on a model
\* outside the configuration can only come from such an override, since
\* select_model puts the default model in place of any other (lines 344-348);
\* the upstream is taken to refuse the model it does not know.
C12_InvalidOverrideReplacedOrRaised ==
    (/\ Len(Calls) > 0
     /\ Calls[1].model \notin DOMAIN models
     /\ Calls[1].reply.status = "error") =>
        \/ Calls[1].model = default_model
        \/ Ended => result.kind = "raised"

(* C13 *)

\* C13: log_model_call returns to its caller whether or not its two appends
\* work, and when the append to the CSV file works its row is written
\* whether or not the append to the JSONL file did.
C13_StorageFailureSwallowed ==
    ret.op = "log_model_call" =>
        /\ ret.value = "returned"
        /\ ret.jsonl_ok =>
                /\ Len(log_file) > 0
                /\ json_loads(log_file[Len(log_file)]).prompt_id = ret.prompt_id
        /\ ret.csv_ok =>
                /\ Len(csv_file) > 0
                /\ csv_file[Len(csv_file)].prompt_id = ret.prompt_id

C13_CsvWrittenAfterJsonlFailed ==
    /\ ret.op = "log_model_call"
    /\ ~ret.jsonl_ok
    /\ ret.csv_ok
    /\ ret.value = "returned"
    /\ log_file = <<>>
    /\ Len(csv_file) = 1
    /\ csv_file[1].prompt_id = ret.prompt_id

(* C14 *)

\* the aggregate of a session recomputed from the successful entries that
\* carry its session_id, each costing token_count * cost_per_1k_tokens / 1000
ReplayedSummary(sid) ==
    LET replayed ==
            SelectSeq(model_calls, LAMBDA r : r.success /\ r.session_id = sid)
        priced ==
            [i \in 1..Len(replayed) |->
                [cost |-> replayed[i].token_count *
                          Get(Get(models, replayed[i].model_id, <<>>),
                              "cost_per_1k_tokens", 0),
                 total_tokens |-> replayed[i].token_count]]
    IN  [session_id |-> sid,
         total_cost |-> SumOf(priced, "cost"),
         total_tokens |-> SumOf(priced, "total_tokens"),
         calls |-> Len(replayed)]

\* C14: between invocations of send_prompt, the summary CostTracker gives
\* for a session equals the summary replayed from the successful entries
\* that carry that session_id, for the session of the CostTracker and for
\* every session_id found in an entry.
C14_LedgerIsViewOfEntries ==
    pc = "idle" =>
        \A sid \in {current_session_id} \cup
                   { model_calls[i].session_id : i \in 1..Len(model_calls) } :
            get_session_summary(sid) = ReplayedSummary(sid)

(* C15 *)

\* C15 as stated: when classify_prompt returns 'code' because of the
\* pattern counts, the code count is strictly greater than the summary
\* count and the question count.
C15_CodeStrictlyHighest ==
    (/\ ret.op = "classify_prompt"
     /\ ret.value = "code"
     /\ prompt_detection_reason[1] = "code patterns") =>
        /\ matched_patterns.code > matched_patterns.summary
        /\ matched_patterns.code > matched_patterns.question

\* C15 amended: when classify_prompt returns 'code' because of the pattern
\* counts, the code count is greater than 0 and no smaller than the summary
\* count and the question count; a tie for the highest count goes to 'code'.
C15_CodeHighestOrTied ==
    /\ (/\ ret.op = "classify_prompt"
        /\ ret.value = "code"
        /\ prompt_detection_reason[1] = "code patterns") =>
            /\ matched_patterns.code > 0
            /\ matched_patterns.code >= matched_patterns.summary
            /\ matched_patterns.code >= matched_patterns.question
    /\ (/\ ret.op = "classify_prompt"
        /\ matched_patterns.code > 0
        /\ matched_patterns.code >= matched_patterns.summary
        /\ matched_patterns.code >= matched_patterns.question) =>
            ret.value = "code"

C15_TieGoesToCode ==
    /\ ret.op = "classify_prompt"
    /\ ret.value = "code"
    /\ prompt_detection_reason[1] = "code patterns"
    /\ matched_patterns.code = matched_patterns.summary
    /\ matched_patterns.code > matched_patterns.question

(* C16 *)

BucketRank(category) ==
    CASE category = "short" -> 1 [] category = "medium" -> 2 [] category = "long" -> 3

LacksKey(m) == m.role = None \/ m.content = Absent

LacksNonEmpty(m) == LacksKey(m) \/ m.role = "" \/ m.content = EmptyText

RefusedUnsent ==
    /\ ret.value.status = "error"
    /\ ret.value.error.kind = "validation"
    /\ ~ret.requested

Appended == { json_loads(log_file[i]).timestamp : i \in 1..Len(log_file) }

C19_QueryTruncatedFullQueryWhole ==
    /\ \A i \in 1..Len(csv_file) : TextLen(csv_file[i].query) <= 100
    /\ ret.op = "log_model_call" =>
        /\ ret.csv_ok =>
              \E row \in {csv_file[Len(csv_file)]} :
                  /\ row.query.of = ret.prompt_query.name
                  /\ ret.prompt_query.chars <= 100 =>
                        /\ ~row.query.dots
                        /\ row.query.upto = ret.prompt_query.chars
        /\ ret.jsonl_ok =>
              \E entry \in {json_loads(log_file[Len(log_file)])} :
                  /\ entry.full_query.of = ret.prompt_query.name
                  /\ entry.full_query.upto = ret.prompt_query.chars
                  /\ ~entry.full_query.dots

C19_LongPromptCut ==
    /\ ret.op = "log_model_call"
    /\ ret.csv_ok
    /\ ret.jsonl_ok
    /\ ret.prompt_query.chars = 101
    /\ csv_file[Len(csv_file)].query.dots
    /\ TextLen(csv_file[Len(csv_file)].query) = 100
    /\ TextLen(json_loads(log_file[Len(log_file)]).full_query) = 101

(* C20 *)

\* the prompt an entry was built for
PromptOf(r) == CHOOSE p \in Prompts : p.name = r.full_query.of

\* C20: every entry that send_prompt builds, the entry of a fallback
\* apart (it is given no pattern counts), holds the pattern counts of its
\* own prompt, as matched_patterns and inside its routing_explanation, and
\* so do the metrics send_prompt returns.
C20_OwnPatternCounts ==
    /\ \A i \in 1..Len(model_calls) :
          model_calls[i].strategy # "fallback" =>
              /\ model_calls[i].matched_patterns =
                    classify_prompt(PromptOf(model_calls[i])).matched
              /\ model_calls[i].routing_explanation.matched_patterns =
                    classify_prompt(PromptOf(model_calls[i])).matched
    /\ result.kind = "returned" =>
          \E i \in 1..Len(model_calls) :
              /\ model_calls[i].prompt_id = result.metrics.prompt_id
              /\ result.metrics.routing_explanation.matched_patterns =
                    classify_prompt(PromptOf(model_calls[i])).matched

(* C21 *)

\* the call on which the model of Calls[i] has failed for good: it failed
\* and no context-length retry follows it
FailedForGood(i) ==
    /\ Calls[i].reply.status = "error"
    /\ Calls[i].retry \/ ~IsTokenLimitError(Calls[i].reply.error)

\* C21: when a model other than the default has failed for good, the next
\* upstream call is the first call on the default model, and the entry
\* built last before that call was issued is the one fallback entry of the
\* invocation: success = false, strategy = 'fallback', model_id the model
\* that failed.  No fallback entry is built for a failure of the default
\* model, and none without a switch to the default model.
C21_FallbackEntryBeforeDefaultCall ==
    /\ \A i \in 1..Len(Calls) :
          (FailedForGood(i) /\ Calls[i].model # default_model) =>
              /\ i < Len(Calls)
              /\ Calls[i + 1].model = default_model
              /\ ~Calls[i + 1].retry
              /\ Calls[i + 1].before - mark.model_calls \in 1..Len(Entries)
              /\ \E r \in {Entries[Calls[i + 1].before - mark.model_calls]} :
                    /\ IsFallbackEntry(r)
                    /\ ~r.success
                    /\ r.model_id = Calls[i].model
                    /\ r.fallback_to = default_model
              /\ Cardinality({ j \in 1..Len(Entries) : IsFallbackEntry(Entries[j]) }) = 1
    /\ \A i \in 1..Len(Calls) :
          (FailedForGood(i) /\ Calls[i].model = default_model) =>
              /\ i = Len(Calls)
              /\ \A j \in 1..Len(Entries) :
                    IsFallbackEntry(Entries[j]) => Entries[j].model_id # default_model
    /\ Cardinality({ j \in 1..Len(Entries) : IsFallbackEntry(Entries[j]) }) = Fallbacks

C21_FallbackAfterRetryFailed ==
    /\ Len(Calls) = 3
    /\ Calls[1].model = Sonnet
    /\ Calls[2].retry
    /\ FailedForGood(2)
    /\ Calls[3].reply.status = "pending"
    /\ Len(Entries) = 3
    /\ IsFallbackEntry(Entries[3])
    /\ Entries[3].model_id = Sonnet

(* C22 *)

\* C22: every entry records the classification of its prompt: prompt_type
\* is code, summary or question and length_category is short, medium or
\* long, whether the attempt succeeded or failed and whether a model was
\* given or not.
C22_ClassificationRecorded ==
    \A i \in 1..Len(model_calls) :
        /\ model_calls[i].prompt_type \in PromptTypes
        /\ model_calls[i].length_category \in LengthCategories

(* C23 *)

\* the candidate of the current strategy for the prompt p
Candidate(p) ==
    strategy_preferences[routing_strategy][classify_prompt(p).type]
                        [determine_length_category(estimate_token_count(p))]

\* C23: select_model returns a key of the catalog or the default model;
\* when the candidate of the current strategy is no key of the catalog it
\* returns the default model and the explanation it stores says that the
\* default was used, and otherwise it returns the candidate.
C23_SelectedInCatalogOrDefault ==
    ret.op = "select_model" =>
        /\ ret.value \in DOMAIN models \cup {default_model}
        /\ model_selection_explanation.model = ret.value
        /\ Candidate(ret.arg) \notin DOMAIN models =>
              /\ ret.value = default_model
              /\ model_selection_explanation.kind = "default"
        /\ Candidate(ret.arg) \in DOMAIN models =>
              /\ ret.value = Candidate(ret.arg)
              /\ model_selection_explanation.kind = "selected"

C23_DefaultForUnknownCandidate ==
    /\ ret.op = "select_model"
    /\ routing_strategy = "balanced"
    /\ Candidate(ret.arg) = Opus
    /\ ret.value = default_model
    /\ model_selection_explanation.kind = "default"

(* C24 *)

\* C24: when send_prompt is given a model, under any routing strategy, the
\* first upstream call of the invocation is made on that model, and the
\* entry of that attempt, the first one the invocation builds, has
\* model_id the given model, strategy = 'manual' and manual_selection = true.
C24_OverrideSkipsStrategy ==
    (invocation > 0 /\ mark.model_arg # None) =>
        /\ Len(Calls) > 0 =>
              /\ Calls[1].model = mark.model_arg
              /\ Calls[1].depth = 0
              /\ ~Calls[1].retry
        /\ Len(Entries) > 0 =>
              /\ Calls[1].reply.status # "pending"
              /\ Entries[1].model_id = mark.model_arg
              /\ Entries[1].strategy = "manual"
              /\ Entries[1].manual_selection
              /\ Entries[1].success = (Len(Rows) > 0 /\ Len(Calls) = 1)

C24_OverrideAgainstStrategy ==
    /\ Ended
    /\ routing_strategy = "cost"
    /\ mark.model_arg = Sonnet
    /\ Len(Calls) = 1
    /\ Calls[1].model = Sonnet
    /\ Entries[1].success
    /\ Entries[1].strategy = "manual"

(* C25 *)

PriceIn(catalog, m) == catalog[m].cost_per_1k_tokens

C26_DearestButSecondForLong ==
    (ret.op = "__init__" /\ Len(ret.order) > 0) =>
        \E top \in {ret.strategy_preferences["quality"]["code"]["short"]},
           second \in {ret.strategy_preferences["quality"]["code"]["long"]} :
            /\ \A t \in PromptTypes :
                  /\ ret.strategy_preferences["quality"][t]["short"] = top
                  /\ ret.strategy_preferences["quality"][t]["medium"] = top
                  /\ ret.strategy_preferences["quality"][t]["long"] = second
            /\ top \in DOMAIN ret.models
            /\ \A k \in DOMAIN ret.models :
                  PriceIn(ret.models, k) <= PriceIn(ret.models, top)
            /\ IF Len(ret.order) = 1
               THEN second = top
               ELSE /\ second \in DOMAIN ret.models \ {top}
                    /\ \A k \in DOMAIN ret.models \ {top} :
                          PriceIn(ret.models, k) <= PriceIn(ret.models, second)

C26_SecondDearestForLong ==
    /\ ret.op = "__init__"
    /\ Len(ret.order) = 3
    /\ ret.strategy_preferences["quality"]["question"]["medium"] = ret.order[2]
    /\ ret.strategy_preferences["quality"]["question"]["long"] = ret.order[3]
    /\ PriceIn(ret.models, ret.order[2]) > PriceIn(ret.models, ret.order[3])
    /\ PriceIn(ret.models, ret.order[3]) > PriceIn(ret.models, ret.order[1])

(* C27 *)

\* C27: for a prompt that matches no pattern of the three lists,
\* classify_prompt returns 'code' when the prompt holds one of { } ; ( )
\* and has more than 3 lines, otherwise 'summary' when it has more than
\* 1000 characters, otherwise 'question'; the empty prompt is a 'question'.
C27_NoMatchPolicy ==
    (/\ ret.op = "classify_prompt"
     /\ ret.arg.code = 0 /\ ret.arg.summary = 0 /\ ret.arg.question = 0) =>
        /\ ret.value =
              IF ret.arg.brackets /\ ret.arg.lines > 3
              THEN "code"
              ELSE IF ret.arg.chars > 1000 THEN "summary" ELSE "question"
        /\ ret.arg.chars = 0 => ret.value = "question"

C27_BracketsOnThreeLines ==
    /\ ret.op = "classify_prompt"
    /\ matched_patterns = [code |-> 0, summary |-> 0, question |-> 0]
    /\ ret.arg.brackets
    /\ ret.arg.lines = 3
    /\ ret.arg.chars = 1001
    /\ ret.value = "summary"

(* C28 *)

C29_MaxTokensCapped ==
    \A i \in 1..Len(upstream) : upstream[i].max_tokens <= 4000

C29_CappedThenHalved ==
    /\ Len(Calls) = 4
    /\ Get(models[Calls[1].model], "max_tokens", 1000) > 4000
    /\ Calls[1].max_tokens = 4000
    /\ Calls[2].retry
    /\ Calls[2].max_tokens = 2000
    /\ Calls[3].depth = 1
    /\ Calls[4].retry

(* C30 *)

\* C30: the context-length retry of a frame is made with a max_tokens no
\* greater than the max_tokens of the first call of the frame, the call
\* that failed before it.
C30_RetryNeverAsksForMore ==
    \A i \in 2..Len(upstream) :
        upstream[i].retry =>
            /\ upstream[i - 1].model = upstream[i].model
            /\ ~upstream[i - 1].retry
            /\ upstream[i].max_tokens <= upstream[i - 1].max_tokens

====
